---- MODULE Spec2Model ----
(***************************************************************************)
(* Model of the Rocket League SDK example resolver (examples/basic.ts):    *)
(* getName, getClassName, getObjectFullName and findByClass reading the    *)
(* memory of a foreign process, and of the README's boolean-bitfield       *)
(* read / write recipe.                                                    *)
(*                                                                         *)
(* Strings are sequences of one-character strings.  A memory cell holds a  *)
(* value or is Unmapped; reading an unmapped cell is a read fault (the     *)
(* memory capability throws).                                              *)
(***************************************************************************)
EXTENDS Integers, Sequences, FiniteSets, TLC

VARIABLES mem, muts, pc, op, result, reads, walk, scan, bits

vars == <<mem, muts, pc, op, result, reads, walk, scan, bits>>

(* ------------------------------ bounds -------------------------------- *)

\* foreign-process writes explored per behaviour
MaxMutations == 1

\* hops of one outer walk explored (the code's loop has no bound of its own)
MaxHops == 6

\* slots of one findByClass pass (500_000 in the source, scaled down)
MAX_OBJECTS == 3

\* UTF-16 characters read behind a name entry (256 in the source, scaled down)
BufChars == 2

\* width of the bitfield's backing word (32 in the source, scaled down)
WordBits == 4

(* --------------------------- foreign memory --------------------------- *)

Unmapped == -1

NUL == "NUL"

\* the sentinel returned by every catch block
ERROR == <<"<", "e", "r", "r", "o", "r", ">">>

\* The characters stored behind each name entry (FNameEntry.Name onwards).
EntryBytes ==
    << <<"A", NUL, "g", "g">>,
       <<"B", NUL, "g", "g">>,
       <<"C", NUL, "g", "g">>,
       <<"D", NUL, "g", "g">>,
       <<"X", NUL, "g", "g">>,
       <<"Y", "Y", "Y", "Y", "Y", NUL>> >>

\* Objects 1..4 are the chain A.B.C.D (4 is D, its Outer chain is 3, 2, 1),
\* object 5 is their class X; name index 6 is a null GNames slot.  Entry 6
\* is a name longer than the buffer (no NUL within BufChars characters).
InitialSlot(i) == IF i % 3 = 1 THEN 0 ELSE (i % 5) + 1

Healthy ==
    [ cls      |-> <<5, 5, 5, 5, 0>>,
      name     |-> <<1, 2, 3, 4, 5>>,
      outer    |-> <<0, 1, 2, 3, 0>>,
      gnames   |-> <<1, 2, 3, 4, 5, 0>>,
      entry    |-> <<1, 1, 1, 1, 1, 1>>,
      gobjects |-> [i \in 0..(MAX_OBJECTS - 1) |-> InitialSlot(i)] ]

Objs == DOMAIN Healthy.cls
Ptrs == {0} \cup Objs
NameIdx == DOMAIN Healthy.gnames
Entries == DOMAIN EntryBytes
Slots == 0..(MAX_OBJECTS - 1)

Addr(t, k) == [t |-> t, k |-> k]

\* one read of the memory capability: the value, or Unmapped for a read fault
Peek(m, a) ==
    CASE a.t = "Class"    -> m.cls[a.k]
      [] a.t = "Name"     -> m.name[a.k]
      [] a.t = "Outer"    -> m.outer[a.k]
      [] a.t = "GNames"   -> m.gnames[a.k]
      [] a.t = "Entry"    -> m.entry[a.k]
      [] a.t = "GObjects" -> m.gobjects[a.k]

(* ------------------------- results and catch -------------------------- *)

Ret(v, rs) == [thrown |-> FALSE, val |-> v, reads |-> rs]
Throw(rs) == [thrown |-> TRUE, val |-> <<>>, reads |-> rs]

\* try { ... } catch { return "<error>"; }
Catch(r) == IF r.thrown THEN Ret(ERROR, r.reads) ELSE r

(* ------------------------------ getName ------------------------------- *)

RECURSIVE IndexOf(_, _, _)
IndexOf(str, c, from) ==
    IF from > Len(str) THEN 0
    ELSE IF str[from] = c THEN from
    ELSE IndexOf(str, c, from + 1)

\* buf.toString('utf16le') of the BufChars characters read at namePtr
ReadBuf(e) == SubSeq(EntryBytes[e], 1, BufChars)

\* nullIdx >= 0 ? str.slice(0, nullIdx) : str
CutAtNul(str) ==
    LET nullIdx == IndexOf(str, NUL, 1)
    IN  IF nullIdx > 0 THEN SubSeq(str, 1, nullIdx - 1) ELSE str

\* getName without the null-entry test
GetNameBody_NoNullCheck(m, index) ==
    LET slot == Addr("GNames", index)
        entryPtr == Peek(m, slot)
        namePtr == Addr("Entry", entryPtr)
    IN  IF entryPtr = Unmapped THEN Throw(<<slot>>)
        ELSE IF entryPtr = 0 \/ Peek(m, namePtr) = Unmapped
        THEN Throw(<<slot, namePtr>>)
        ELSE Ret(CutAtNul(ReadBuf(entryPtr)), <<slot, namePtr>>)

GetNameBody(m, index) ==
    LET slot == Addr("GNames", index)
        entryPtr == Peek(m, slot)
    IN  IF entryPtr = Unmapped THEN Throw(<<slot>>)
        ELSE IF entryPtr = 0 THEN Ret(<<>>, <<slot>>)
        ELSE LET namePtr == Addr("Entry", entryPtr)
             IN  IF Peek(m, namePtr) = Unmapped THEN Throw(<<slot, namePtr>>)
                 ELSE Ret(CutAtNul(ReadBuf(entryPtr)), <<slot, namePtr>>)

\* getName without its try / catch
GetName_NoCatch(m, index) == GetNameBody(m, index)

GetName(m, index) == Catch(GetNameBody(m, index))

(* ---------------------------- getClassName ---------------------------- *)

GetClassNameBody(m, objPtr) ==
    LET a1 == Addr("Class", objPtr)
        classPtr == Peek(m, a1)
    IN  IF classPtr = Unmapped THEN Throw(<<a1>>)
        ELSE IF classPtr = 0 THEN Ret(<<>>, <<a1>>)
        ELSE LET a2 == Addr("Name", classPtr)
                 nameIndex == Peek(m, a2)
             IN  IF nameIndex = Unmapped THEN Throw(<<a1, a2>>)
                 ELSE LET r == GetName(m, nameIndex)
                      IN  IF r.thrown THEN Throw(<<a1, a2>> \o r.reads)
                          ELSE Ret(r.val, <<a1, a2>> \o r.reads)

GetClassName(m, objPtr) == Catch(GetClassNameBody(m, objPtr))

(* -------------------------- getObjectFullName ------------------------- *)

\* outers.push(x) in place of unshift
Unshift_Push(outers, x) == Append(outers, x)

\* outers.unshift(x)
Unshift(outers, x) == <<x>> \o outers

RECURSIVE Join(_, _)
\* outers.join(sep)
Join(strs, sep) ==
    IF Len(strs) = 0 THEN <<>>
    ELSE IF Len(strs) = 1 THEN strs[1]
    ELSE strs[1] \o sep \o Join(Tail(strs), sep)

\* outers.length > 0 ? outers.join('.') + '.' + name : name
PathOf(outers, name) ==
    IF Len(outers) > 0 THEN Join(outers, <<".">>) \o <<".">> \o name ELSE name

\* `${className} ${path}`
FormatFullName(className, outers, name) ==
    className \o <<" ">> \o PathOf(outers, name)

NoWalk ==
    [obj |-> 0, className |-> <<>>, name |-> <<>>, outers |-> <<>>,
     outer |-> 0, caller |-> "none"]

\* The statements before the loop: class name, own name, first Outer read.
\* ok = FALSE when a read faulted (the catch block then returns "<error>").
EnterFullName(m, objPtr, caller) ==
    LET cn == GetClassName(m, objPtr)
        a1 == Addr("Name", objPtr)
        nameIndex == Peek(m, a1)
        a2 == Addr("Outer", objPtr)
        outer == Peek(m, a2)
    IN  IF cn.thrown
        THEN [ok |-> FALSE, reads |-> cn.reads, w |-> NoWalk]
        ELSE IF nameIndex = Unmapped
        THEN [ok |-> FALSE, reads |-> cn.reads \o <<a1>>, w |-> NoWalk]
        ELSE LET nm == GetName(m, nameIndex)
                 rs == cn.reads \o <<a1>> \o nm.reads \o <<a2>>
             IN  IF nm.thrown
                 THEN [ok |-> FALSE, reads |-> cn.reads \o <<a1>> \o nm.reads,
                       w |-> NoWalk]
                 ELSE IF outer = Unmapped
                 THEN [ok |-> FALSE, reads |-> rs, w |-> NoWalk]
                 ELSE [ok |-> TRUE, reads |-> rs,
                       w |-> [obj |-> objPtr, className |-> cn.val,
                              name |-> nm.val, outers |-> <<>>,
                              outer |-> outer, caller |-> caller]]

\* One iteration of  while (outer !== 0n) { ... }
HopOf(m, w) ==
    LET a1 == Addr("Name", w.outer)
        outerNameIdx == Peek(m, a1)
        a2 == Addr("Outer", w.outer)
        next == Peek(m, a2)
    IN  IF outerNameIdx = Unmapped
        THEN [ok |-> FALSE, reads |-> <<a1>>, w |-> w]
        ELSE LET nm == GetName(m, outerNameIdx)
                 rs == <<a1>> \o nm.reads \o <<a2>>
             IN  IF nm.thrown
                 THEN [ok |-> FALSE, reads |-> <<a1>> \o nm.reads, w |-> w]
                 ELSE IF next = Unmapped
                 THEN [ok |-> FALSE, reads |-> rs, w |-> w]
                 ELSE [ok |-> TRUE, reads |-> rs,
                       w |-> [w EXCEPT !.outers = Unshift(w.outers, nm.val),
                                       !.outer = next]]

\* The loop condition of getObjectFullName: the walk goes on while the
\* Outer pointer is not null.
WalkContinues(w) == w.outer # 0

(* ----------------------------- findByClass ---------------------------- *)

\* faulted logs the slots whose iteration met a read fault, slotLog the
\* indices of the slots read (what a read-counting stub would report).
NoScan ==
    [active |-> FALSE, className |-> <<>>, i |-> 0, ptr |-> 0,
     yields |-> <<>>, slotLog |-> <<>>, faulted |-> {}]

\* The body of the try block of one loop iteration, up to the yield.
ScanBody(m, i, className) ==
    LET ptr == Peek(m, Addr("GObjects", i))
    IN  IF ptr = Unmapped THEN [kind |-> "throw", ptr |-> 0, fault |-> TRUE]
        ELSE IF ptr = 0 THEN [kind |-> "continue", ptr |-> 0, fault |-> FALSE]
        ELSE LET cn == GetClassName(m, ptr)
                 f == GetClassNameBody(m, ptr).thrown
             IN  IF cn.thrown THEN [kind |-> "throw", ptr |-> ptr, fault |-> f]
                 ELSE IF cn.val = className
                 THEN [kind |-> "match", ptr |-> ptr, fault |-> f]
                 ELSE [kind |-> "continue", ptr |-> ptr, fault |-> f]

\* the loop body without its try / catch
ScanIter_NoCatch(m, i, className) == ScanBody(m, i, className)

\* try { ... } catch { /* Skip unreadable objects */ }
ScanIter(m, i, className) ==
    LET b == ScanBody(m, i, className)
    IN  IF b.kind = "throw" THEN [b EXCEPT !.kind = "continue"] ELSE b

\* for (let i = 0; i < MAX_OBJECTS; i++)
ScanContinues(i) == i < MAX_OBJECTS
NextIndex_Skip(i) == i + 2
NextIndex(i) == i + 1

(* ------------------------------ bitfields ------------------------------ *)

Modulus == 2 ^ WordBits
Words == 0..(Modulus - 1)

\* JavaScript's bitwise operators work on signed integers of the word width
ToUint(x) == x % Modulus
ToInt(x) == LET u == ToUint(x) IN IF u >= Modulus \div 2 THEN u - Modulus ELSE u

RECURSIVE BitAnd(_, _)
BitAnd(a, b) ==
    IF a = 0 \/ b = 0 THEN 0
    ELSE (a % 2) * (b % 2) + 2 * BitAnd(a \div 2, b \div 2)

RECURSIVE BitOr(_, _)
BitOr(a, b) ==
    IF a = 0 THEN b
    ELSE IF b = 0 THEN a
    ELSE (IF a % 2 = 1 \/ b % 2 = 1 THEN 1 ELSE 0) + 2 * BitOr(a \div 2, b \div 2)

JsAnd(a, b) == ToInt(BitAnd(ToUint(a), ToUint(b)))
JsOr(a, b) == ToInt(BitOr(ToUint(a), ToUint(b)))
JsNot(a) == ToInt(Modulus - 1 - ToUint(a))

\* (bitfield & mask) > 0
Decode_Positive(rawInteger, mask) == JsAnd(rawInteger, mask) > 0

\* (bitfield & mask) !== 0
Decode(rawInteger, mask) == JsAnd(rawInteger, mask) # 0

\* bitfield = mask: the masked bits written in isolation
EncodeSet_MaskOnly(rawInteger, mask) == mask

\* bitfield |= mask
EncodeSet(rawInteger, mask) == JsOr(rawInteger, mask)

\* bitfield &= ~mask
EncodeClear(rawInteger, mask) == JsAnd(rawInteger, JsNot(mask))

\* rl.writeU32(address, bitfield): the backing word keeps WordBits bits
WriteU32(value) == ToUint(value)

\* word is the backing word in foreign memory, local the variable
\* bitfield of the snippet, before the word the snippet read.
NoBits == [word |-> 0, mask |-> 1, local |-> 0, flag |-> FALSE,
           kind |-> "none", before |-> 0]

(* ------------------------------- actions ------------------------------ *)

\* stale: the foreign process has written since the operation was called
NoOp == [kind |-> "none", arg |-> 0, cp |-> 0, stale |-> FALSE]

Call(kind, arg, cp) == [kind |-> kind, arg |-> arg, cp |-> cp, stale |-> FALSE]

Init ==
    /\ mem = Healthy
    /\ muts = 0
    /\ pc = "idle"
    /\ op = NoOp
    /\ result = [thrown |-> FALSE, val |-> <<>>]
    /\ reads = <<>>
    /\ walk = NoWalk
    /\ scan = NoScan
    /\ bits = NoBits

\* The values a cell of each kind can hold.
CellValues(f) ==
    CASE f = "cls"      -> Ptrs
      [] f = "outer"    -> Ptrs
      [] f = "gobjects" -> Ptrs
      [] f = "name"     -> NameIdx
      [] f = "gnames"   -> {0} \cup Entries
      [] f = "entry"    -> {1}

\* The foreign process rewrites (when rewrites is TRUE) or frees / unmaps
\* one cell of the given kinds at any moment.
MutateIn(fields, rewrites) ==
    /\ muts < MaxMutations
    /\ \E f \in fields :
         \E k \in DOMAIN mem[f] :
           \E v \in (IF rewrites THEN CellValues(f) ELSE {}) \cup {Unmapped} :
             /\ v # mem[f][k]
             /\ mem' = [mem EXCEPT ![f][k] = v]
    /\ muts' = muts + 1
    /\ op' = [op EXCEPT !.stale = TRUE]
    /\ UNCHANGED <<pc, result, reads, walk, scan, bits>>

Mutate == MutateIn(DOMAIN Healthy, TRUE)

\* the cells getName and getClassName read
MutateNames == MutateIn({"cls", "name", "gnames", "entry"}, TRUE)

\* the cells getObjectFullName reads
MutateObjects ==
    MutateIn({"cls", "name", "outer", "gnames", "entry"}, TRUE)

\* a cell the resolver reads becomes unreadable
Unmap == MutateIn({"cls", "name", "outer", "gnames", "entry"}, FALSE)

CallGetName ==
    /\ pc = "idle"
    /\ \E index \in NameIdx :
         LET r == GetName(mem, index)
         IN  /\ op' = Call("getName", index, 0)
             /\ result' = [thrown |-> r.thrown, val |-> r.val]
             /\ reads' = r.reads
    /\ UNCHANGED <<mem, muts, pc, walk, scan, bits>>

\* cp records the ClassPointer the call read (0 when null or unreadable).
CallGetClassName ==
    /\ pc = "idle"
    /\ \E objPtr \in Objs :
         LET r == GetClassName(mem, objPtr)
             c == Peek(mem, Addr("Class", objPtr))
         IN  /\ op' = Call("getClassName", objPtr,
                           IF c = Unmapped THEN 0 ELSE c)
             /\ result' = [thrown |-> r.thrown, val |-> r.val]
             /\ reads' = r.reads
    /\ UNCHANGED <<mem, muts, pc, walk, scan, bits>>

\* getObjectFullName returns v: to the caller of the API, or to the yield
\* of findByClass, which then goes on with the next slot.
Return(v) ==
    IF walk.caller = "scan"
    THEN /\ scan' = [scan EXCEPT
                       !.yields = Append(@, [ptr |-> scan.ptr, fullName |-> v]),
                       !.i = NextIndex(@),
                       !.faulted = IF v = ERROR THEN @ \cup {scan.i} ELSE @]
         /\ pc' = "scan"
         /\ UNCHANGED result
    ELSE /\ result' = [thrown |-> FALSE, val |-> v]
         /\ pc' = "idle"
         /\ UNCHANGED scan

CallGetObjectFullName ==
    /\ pc = "idle"
    /\ \E objPtr \in Objs :
         LET e == EnterFullName(mem, objPtr, "api")
         IN  /\ op' = Call("getObjectFullName", objPtr, 0)
             /\ reads' = e.reads
             /\ walk' = e.w
             /\ IF e.ok
                THEN pc' = "walk" /\ UNCHANGED result
                ELSE pc' = "idle" /\ result' = [thrown |-> FALSE, val |-> ERROR]
    /\ UNCHANGED <<mem, muts, scan, bits>>

WalkHop ==
    /\ pc = "walk"
    /\ WalkContinues(walk)
    /\ Len(walk.outers) < MaxHops
    /\ LET h == HopOf(mem, walk)
       IN  /\ reads' = reads \o h.reads
           /\ IF h.ok
              THEN walk' = h.w /\ UNCHANGED <<pc, result, scan>>
              ELSE walk' = walk /\ Return(ERROR)
    /\ UNCHANGED <<mem, muts, op, bits>>

WalkFinish ==
    /\ pc = "walk"
    /\ ~WalkContinues(walk)
    /\ Return(FormatFullName(walk.className, walk.outers, walk.name))
    /\ UNCHANGED <<mem, muts, op, reads, walk, bits>>

StartFindByClass ==
    /\ pc = "idle"
    /\ \E className \in {<<"X">>, <<>>, ERROR} :
         scan' = [NoScan EXCEPT !.active = TRUE, !.className = className]
    /\ pc' = "scan"
    /\ op' = Call("findByClass", 0, 0)
    /\ result' = [thrown |-> FALSE, val |-> <<>>]
    /\ reads' = <<>>
    /\ UNCHANGED <<mem, muts, walk, bits>>

ScanStep ==
    /\ pc = "scan"
    /\ ScanContinues(scan.i)
    /\ LET it == ScanIter(mem, scan.i, scan.className)
           read == [scan EXCEPT
                      !.slotLog = Append(@, scan.i),
                      !.ptr = it.ptr,
                      !.faulted = IF it.fault THEN @ \cup {scan.i} ELSE @]
       IN  CASE it.kind = "continue" ->
                  /\ scan' = [read EXCEPT !.i = NextIndex(@)]
                  /\ UNCHANGED <<pc, result, reads, walk>>
             [] it.kind = "match" ->
                  LET e == EnterFullName(mem, it.ptr, "scan")
                  IN  /\ reads' = e.reads
                      /\ walk' = e.w
                      /\ IF e.ok
                         THEN /\ pc' = "walk"
                              /\ scan' = read
                         ELSE /\ pc' = "scan"
                              /\ scan' = [read EXCEPT
                                    !.yields = Append(@, [ptr |-> it.ptr,
                                                         fullName |-> ERROR]),
                                    !.i = NextIndex(@),
                                    !.faulted = @ \cup {scan.i}]
                      /\ UNCHANGED result
             [] it.kind = "throw" ->
                  \* an exception leaving the generator body ends the pass
                  /\ scan' = [read EXCEPT !.active = FALSE]
                  /\ pc' = "idle"
                  /\ result' = [thrown |-> TRUE, val |-> <<>>]
                  /\ UNCHANGED <<reads, walk>>
    /\ UNCHANGED <<mem, muts, op, bits>>

ScanEnd ==
    /\ pc = "scan"
    /\ ~ScanContinues(scan.i)
    /\ scan' = [scan EXCEPT !.active = FALSE]
    /\ pc' = "idle"
    /\ UNCHANGED <<mem, muts, op, result, reads, walk, bits>>

\* To read a bitfield bool
ReadBitfield ==
    /\ \E mask \in Words \ {0} :
         LET bitfield == bits.word
         IN  bits' = [word |-> bits.word, mask |-> mask, local |-> bitfield,
                      flag |-> Decode(bitfield, mask), kind |-> "read",
                      before |-> bits.word]
    /\ UNCHANGED <<mem, muts, pc, op, result, reads, walk, scan>>

\* To write a bitfield bool: read the word, set or clear the mask, write it
WriteBitfield(kind, mask) ==
    LET bitfield == IF kind = "set" THEN EncodeSet(bits.word, mask)
                    ELSE EncodeClear(bits.word, mask)
    IN  bits' = [word |-> WriteU32(bitfield), mask |-> mask,
                 local |-> bitfield, flag |-> bits.flag, kind |-> kind,
                 before |-> bits.word]

WriteBitfieldSet ==
    /\ \E mask \in Words \ {0} : WriteBitfield("set", mask)
    /\ UNCHANGED <<mem, muts, pc, op, result, reads, walk, scan>>

WriteBitfieldClear ==
    /\ \E mask \in Words \ {0} : WriteBitfield("clear", mask)
    /\ UNCHANGED <<mem, muts, pc, op, result, reads, walk, scan>>

(* --------------------------- specifications --------------------------- *)

Next ==
    \/ Mutate
    \/ CallGetName
    \/ CallGetClassName
    \/ CallGetObjectFullName
    \/ WalkHop
    \/ WalkFinish
    \/ StartFindByClass
    \/ ScanStep
    \/ ScanEnd

Spec == Init /\ [][Next]_vars

\* getName and getClassName against a changing foreign memory
NextNames == MutateNames \/ CallGetName \/ CallGetClassName

SpecNames == Init /\ [][NextNames]_vars

\* the three resolver operations against read faults
NextResolve ==
    \/ Unmap
    \/ CallGetName
    \/ CallGetClassName
    \/ CallGetObjectFullName
    \/ WalkHop
    \/ WalkFinish

SpecResolve == Init /\ [][NextResolve]_vars

\* getObjectFullName alone
NextWalk == MutateObjects \/ CallGetObjectFullName \/ WalkHop \/ WalkFinish

SpecWalk == Init /\ [][NextWalk]_vars

\* passes of findByClass
NextScan ==
    \/ Mutate
    \/ StartFindByClass
    \/ ScanStep
    \/ ScanEnd
    \/ WalkHop
    \/ WalkFinish

SpecScan == Init /\ [][NextScan]_vars

\* the bitfield recipe on every backing word
InitBits ==
    /\ mem = Healthy
    /\ muts = 0
    /\ pc = "idle"
    /\ op = NoOp
    /\ result = [thrown |-> FALSE, val |-> <<>>]
    /\ reads = <<>>
    /\ walk = NoWalk
    /\ scan = NoScan
    /\ bits \in {[NoBits EXCEPT !.word = w, !.before = w] : w \in Words}

NextBits == ReadBitfield \/ WriteBitfieldSet \/ WriteBitfieldClear

SpecBits == InitBits /\ [][NextBits]_vars

(* ------------------------------- claims ------------------------------- *)

RECURSIVE Outers(_, _, _)
\* the pointers p, Outer(p), Outer(Outer(p)), ... up to a null or unreadable
\* Outer, at most fuel of them
Outers(m, p, fuel) ==
    IF p = 0 \/ p = Unmapped \/ fuel = 0 THEN <<>>
    ELSE <<p>> \o Outers(m, m.outer[p], fuel - 1)

\* the Outer chain of object o, direct Outer first
ChainOf(m, o) == Outers(m, m.outer[o], Cardinality(Objs) + 1)

NameReadOk(m, p) == m.name[p] # Unmapped /\ ~GetNameBody(m, m.name[p]).thrown

\* every read getObjectFullName(o) issues succeeds and the Outer chain of o
\* is finite and ends in a null Outer
ChainOk(m, o) ==
    /\ ~GetClassNameBody(m, o).thrown
    /\ NameReadOk(m, o)
    /\ m.outer[o] # Unmapped
    /\ Len(ChainOf(m, o)) <= Cardinality(Objs)
    /\ \A k \in 1..Len(ChainOf(m, o)) :
         /\ NameReadOk(m, ChainOf(m, o)[k])
         /\ m.outer[ChainOf(m, o)[k]] # Unmapped

NameOf(m, p) == GetName(m, m.name[p]).val

RECURSIVE Qualified(_, _)
\* the names of a chain (direct Outer first) written outermost first, each
\* followed by a dot
Qualified(m, chain) ==
    IF chain = <<>> THEN <<>>
    ELSE Qualified(m, Tail(chain)) \o NameOf(m, Head(chain)) \o <<".">>

ExpectedFullName(m, o) ==
    GetClassName(m, o).val \o <<" ">> \o Qualified(m, ChainOf(m, o)) \o NameOf(m, o)

FullNameDone == pc = "idle" /\ op.kind = "getObjectFullName" /\ ~op.stale

\* C1: an outer walk over an unchanging memory takes at most a fixed
\* defensive number of hops (here: more hops than there are objects mean the
\* walk is going round a cycle), then stops with a partial result.
DefensiveDepth == Cardinality(Objs)

CE_C1 == (pc = "walk" /\ ~op.stale) => Len(walk.outers) <= DefensiveDepth

\* C2: when every read succeeds and the Outer chain is finite and
\* null-terminated, getObjectFullName returns the class name, a space, the
\* outers' names outermost first joined by dots, a dot and the own name
\* (no leading dot when there is no outer).
Thm_C2 ==
    (FullNameDone /\ ChainOk(mem, op.arg))
        => result.val = ExpectedFullName(mem, op.arg)

\* the chain A.B.C, own name D, class X gives "X A.B.C.D"
Wit_C2 ==
    /\ FullNameDone
    /\ ChainOk(mem, op.arg)
    /\ Len(ChainOf(mem, op.arg)) = 3
    /\ result.val = <<"X", " ", "A", ".", "B", ".", "C", ".", "D">>

\* C3: getName, getClassName and getObjectFullName never raise to their
\* caller: a returned operation has produced a string.
Thm_C3 ==
    (pc = "idle" /\ op.kind \in {"getName", "getClassName", "getObjectFullName"})
        => ~result.thrown

\* a read fault in the middle of the outer walk came back as "<error>"
Wit_C3 ==
    /\ pc = "idle"
    /\ op.kind = "getObjectFullName"
    /\ result.val = ERROR
    /\ Len(walk.outers) >= 1
    /\ ~result.thrown

\* C4: getName of an index whose GNames slot holds the null entry pointer
\* returns the empty string, reads nothing but the slot, and does not fail.
Thm_C4 ==
    (pc = "idle" /\ op.kind = "getName" /\ ~op.stale /\ mem.gnames[op.arg] = 0)
        => /\ result.val = <<>>
           /\ ~result.thrown
           /\ reads = <<Addr("GNames", op.arg)>>

\* a slot the foreign process nulled after start-up
Wit_C4 ==
    /\ pc = "idle"
    /\ op.kind = "getName"
    /\ ~op.stale
    /\ mem.gnames[op.arg] = 0
    /\ Healthy.gnames[op.arg] # 0
    /\ result.val = <<>>

NameTableReads(rs) ==
    {k \in 1..Len(rs) : rs[k].t \in {"Name", "GNames", "Entry"}}

\* C5: a getClassName call on a ClassPointer that an earlier call resolved
\* successfully reads neither the class's Name field nor the name table.
CE_C5 ==
    [][ ( /\ op.kind = "getClassName"
          /\ op.cp # 0
          /\ result.val # ERROR
          /\ op'.kind = "getClassName"
          /\ op'.cp = op.cp
          /\ mem' = mem )
        => NameTableReads(reads') = {} ]_vars

SlotsInOrder(n) == [k \in 1..n |-> k - 1]

PassEnded == pc = "idle" /\ op.kind = "findByClass"

\* a pass that has ended has read every slot and raised nothing
ScanDoneAll ==
    PassEnded => (scan.slotLog = SlotsInOrder(MAX_OBJECTS) /\ ~result.thrown)

\* a step that meets a read fault leaves the pass running, on the next slot
\* or in the full-name walk of the object it matched; and a running pass
\* ends only at the cap
ScanFaultGoesOn ==
    /\ (scan.active /\ scan'.faulted # scan.faulted)
         => /\ scan'.active
            /\ \/ pc' = "scan" /\ scan'.i = scan.i + 1
               \/ pc' = "walk" /\ scan'.i = scan.i
    /\ (scan.active /\ ~scan'.active) => scan.i = MAX_OBJECTS

\* C6: a read fault in one iteration of a findByClass pass does not end the
\* pass: the pass goes on with the next slot and ends only after the last
\* slot, having read every slot.
Thm_C6 ==
    /\ [](ScanDoneAll)
    /\ [][ScanFaultGoesOn]_vars

\* slot j was unreadable, and the object of a later slot was yielded
Wit_C6 ==
    /\ PassEnded
    /\ ~op.stale
    /\ \E j \in scan.faulted :
         /\ mem.gobjects[j] = Unmapped
         /\ \E k \in Slots : \E y \in 1..Len(scan.yields) :
              k > j /\ mem.gobjects[k] # 0 /\ scan.yields[y].ptr = mem.gobjects[k]

\* C7: two getClassName calls on objects with the same ClassPointer return
\* the same class name, whatever the foreign process did in between.
CE_C7 ==
    [][ ( /\ op.kind = "getClassName"
          /\ op'.kind = "getClassName"
          /\ op.cp # 0
          /\ op'.cp = op.cp )
        => result'.val = result.val ]_vars

Bit(x, k) == (x \div (2 ^ k)) % 2

\* C8: writing a bitfield bool leaves every bit outside the mask as it was
\* in the backing word; setting 0x2 in the word 0x1 gives 0x3.
Thm_C8 ==
    (bits.kind \in {"set", "clear"})
        => /\ \A k \in 0..(WordBits - 1) :
                Bit(bits.mask, k) = 0 => Bit(bits.word, k) = Bit(bits.before, k)
           /\ (bits.kind = "set" /\ bits.before = 1 /\ bits.mask = 2)
                => bits.word = 3

Wit_C8 ==
    bits.kind = "set" /\ bits.before = 1 /\ bits.mask = 2 /\ bits.word = 3

SameMask == bits'.mask = bits.mask

MaskClearIn(w, m) == \A k \in 0..(WordBits - 1) : Bit(m, k) = 0 \/ Bit(w, k) = 0

\* C9: reading a bitfield bool right after setting it gives true, right after
\* clearing it gives false, and clearing it right after setting it restores
\* a word in which it was clear; mask 0x2 on word 0x5 gives 0x7 and back 0x5.
Thm_C9 ==
    [][ /\ (bits.kind = "set" /\ bits'.kind = "read" /\ SameMask)
             => bits'.flag
        /\ (bits.kind = "clear" /\ bits'.kind = "read" /\ SameMask)
             => ~bits'.flag
        /\ (bits.kind = "set" /\ bits'.kind = "clear" /\ SameMask
              /\ MaskClearIn(bits.before, bits.mask))
             => bits'.word = bits.before
        /\ (bits.word = 5 /\ bits'.kind = "set" /\ bits'.mask = 2)
             => bits'.word = 7
        /\ (bits.word = 7 /\ bits'.kind = "clear" /\ bits'.mask = 2)
             => bits'.word = 5 ]_vars

\* the bool was set, then read as true
Wit_C9 ==
    /\ bits.kind = "read"
    /\ bits.mask = 2
    /\ bits.word = 7
    /\ bits.flag

RECURSIVE Matches(_, _, _)
\* the non-null pointers of slots 0..n-1 whose class name is className, in
\* index order
Matches(m, className, n) ==
    IF n = 0 THEN <<>>
    ELSE LET v == m.gobjects[n - 1]
         IN  Matches(m, className, n - 1) \o
             (IF v # 0 /\ v # Unmapped /\ GetClassName(m, v).val = className
              THEN <<v>> ELSE <<>>)

YieldedPtrs == [k \in 1..Len(scan.yields) |-> scan.yields[k].ptr]

\* C10: a findByClass pass reads the slots 0, 1, ... in increasing order,
\* each once, up to the cap MAX_OBJECTS and no further; over an unchanging
\* memory it yields exactly the non-null pointers whose class name is the
\* requested one, in index order.
Thm_C10 ==
    /\ scan.slotLog = SlotsInOrder(Len(scan.slotLog))
    /\ Len(scan.slotLog) <= MAX_OBJECTS
    /\ scan.i <= MAX_OBJECTS
    /\ PassEnded => Len(scan.slotLog) = MAX_OBJECTS
    /\ (op.kind = "findByClass" /\ ~op.stale)
         => YieldedPtrs = Matches(mem, scan.className, scan.i)

\* a finished pass that skipped a null slot and yielded two objects
Wit_C10 ==
    /\ PassEnded
    /\ ~op.stale
    /\ Len(scan.yields) = 2
    /\ \E j \in Slots : mem.gobjects[j] = 0

====
